---- MODULE Spec2Model ----
(***************************************************************************)
(* AnimePipeline: the driver loop (Loop.start), the per-task pipeline      *)
(* (Loop.pipeline), the publish client (TGChannelSender.send_video) and    *)
(* the transcode client's upload/download operations, together with the    *)
(* task executor and the task status store they run against.               *)
(***************************************************************************)
EXTENDS Integers, Sequences, FiniteSets, TLC

(* ---------------------------------------------------------------- bounds *)

\* number of task identities (torrent hashes) the discovery feed yields
NumHashes == 2

\* tg.py: @retry(..., stop=stop_after_attempt(10))
STOP_AFTER_ATTEMPT == 10

Hashes == 1..NumHashes

\* Python's None: an absent path, an absent record
None == <<>>

(* ------------------------------------------------------------ data types *)

\* TaskStatus(): the record a new identity is created with
TaskStatus ==
  [bt_downloaded_path |-> None, finalrip_downloaded_path |-> None,
   tg_uploaded |-> FALSE, done |-> FALSE]

\* str(qbittorrent_manager.get_downloaded_path(hash))
BtPath(h) == <<"bt", h>>

\* bt_downloaded_path.parent / gen_file_name(...)
FinalPath(h) == <<"final", h>>

\* the routing configuration: the names present in rss_config.scripts and
\* rss_config.params
ConfigChoices ==
  [scripts : SUBSET Hashes, params : {{}, {"default"}}]

\* rss_config.nyaa: one entry per feed; entry h names script h and the
\* parameter set "default", and its feed lists the item with hash h
NyaaScript(h) == h
NyaaParam(h) == "default"

FullConfig == [scripts |-> Hashes, params |-> {"default"}]

VARIABLES
  store,        \* AsyncJsonStore: hash -> TaskStatus, or None when absent
  running,      \* AsyncTaskExecutor: the identities with a live execution
  execs,        \* the pipeline coroutines in flight (frames of Loop.pipeline)
  dpc,          \* position of Loop.start
  di,           \* index of the item Loop.start is at in the current tick
  stop_event,   \* Loop.stop_event
  rss_config,   \* the routing configuration as last refreshed
  tg_enable,    \* server_config.telegram.enable (tg_channel_sender is not None)
  qb,           \* acquisition service: state of each torrent
  fr,           \* transcode service: state of each video key
  disk,         \* the files written by the transcode stage
  reply         \* what a direct caller of the store or of the transcode
                \* client got back from its last call

vars == <<store, running, execs, dpc, di, stop_event, rss_config, tg_enable,
          qb, fr, disk, reply>>

(* -------------------------------------------------------------- helpers *)

Range(s) == {s[i] : i \in 1..Len(s)}

\* the stage clients an execution has called, in order of first call
Touch(called, c) == IF c \in Range(called) THEN called ELSE Append(called, c)

\* a fresh frame of Loop.pipeline(task_info) for identity h
NewExec(h) ==
  [id |-> h, pc |-> "check", ts |-> None, entry |-> None,
   called |-> <<>>, writes |-> <<>>, delivered |-> FALSE, err |-> ""]

Raise(e, name) == [e EXCEPT !.pc = "raised", !.err = name]

Replace(e, f) == (execs \ {e}) \cup {f}

Live(h) == {e \in execs : e.id = h}

(* --------------------------------------------------- task status store *)

check_task_exist(h) == store[h] # None

\* add_task as an upsert: a present key is overwritten without an error
add_task_overwrite(st, h, status) ==
  [err |-> "", store |-> [st EXCEPT ![h] = status]]

\* AsyncJsonStore.add_task on the mapping st: AlreadyExists when the key is
\* present, otherwise the record is persisted
add_task(st, h, status) ==
  IF st[h] # None
    THEN [err |-> "AlreadyExists", store |-> st]
    ELSE [err |-> "", store |-> [st EXCEPT ![h] = status]]

\* AsyncJsonStore.get_task: NotFound when the key is absent
get_task(st, h) ==
  IF st[h] = None
    THEN [err |-> "NotFound", value |-> None]
    ELSE [err |-> "", value |-> st[h]]

\* update_task that merges: a field the new record leaves empty keeps its
\* stored value
update_task_merge(st, h, status) ==
  IF st[h] = None
    THEN [err |-> "NotFound", store |-> st]
    ELSE [err |-> "",
          store |-> [st EXCEPT ![h] =
            [bt_downloaded_path |->
               IF status.bt_downloaded_path # None
                 THEN status.bt_downloaded_path ELSE st[h].bt_downloaded_path,
             finalrip_downloaded_path |->
               IF status.finalrip_downloaded_path # None
                 THEN status.finalrip_downloaded_path
                 ELSE st[h].finalrip_downloaded_path,
             tg_uploaded |-> status.tg_uploaded \/ st[h].tg_uploaded,
             done |-> status.done \/ st[h].done]]]

\* AsyncJsonStore.update_task: the full record is replaced; NotFound when
\* the key is absent
update_task(st, h, status) ==
  IF st[h] = None
    THEN [err |-> "NotFound", store |-> st]
    ELSE [err |-> "", store |-> [st EXCEPT ![h] = status]]

\* nothing has been called directly yet
NoReply ==
  [op |-> "", id |-> 0, arg |-> None, err |-> "", value |-> None,
   restarted |-> FALSE]

(* ------------------------------------------------------- task executor *)

\* AsyncTaskExecutor.submit_task(task_id, func, *args): start func unless an
\* execution for task_id is still running, in which case nothing happens
submit_task(h) ==
  IF h \in running
    THEN UNCHANGED <<running, execs>>
    ELSE /\ running' = running \cup {h}
         /\ execs' = execs \cup {NewExec(h)}

(* -------------------------------------------------------- build_task_info *)

\* "ok", or the ValueError build_task_info raises
build_task_info(h, cfg) ==
  IF NyaaScript(h) \notin cfg.scripts THEN "ValueError"
  ELSE IF NyaaParam(h) \notin cfg.params THEN "ValueError"
  ELSE "ok"

(* --------------------------------------------------------------- driver *)

Init ==
  /\ store = [h \in Hashes |-> None]
  /\ running = {}
  /\ execs = {}
  /\ dpc = "while"
  /\ di = 1
  /\ stop_event = FALSE
  /\ rss_config = FullConfig
  /\ tg_enable \in BOOLEAN
  /\ qb = [h \in Hashes |-> "absent"]
  /\ fr = [h \in Hashes |-> "absent"]
  /\ disk = [h \in Hashes |-> "none"]
  /\ reply = NoReply

\* Loop.stop
Stop ==
  /\ ~stop_event
  /\ stop_event' = TRUE
  /\ UNCHANGED <<store, running, execs, dpc, di, rss_config, tg_enable, qb, fr, disk, reply>>

\* DriverLoop without the stop_event test: while True
DriverLoopIgnoresStop(files) ==
  /\ dpc = "while"
  /\ dpc' = "iter"
  /\ \E c \in files : rss_config' = c
  /\ di' = 1
  /\ UNCHANGED <<store, running, execs, stop_event, tg_enable, qb, fr, disk, reply>>

\* Loop.start: the while test and rss_config.refresh_config(), which reads
\* one of the configurations `files` from the configuration file
DriverLoop(files) ==
  /\ dpc = "while"
  /\ IF stop_event
       THEN /\ dpc' = "exit"
            /\ UNCHANGED rss_config
       ELSE /\ dpc' = "iter"
            /\ \E c \in files : rss_config' = c
  /\ di' = 1
  /\ UNCHANGED <<store, running, execs, stop_event, tg_enable, qb, fr, disk, reply>>

\* DriverSubmit starting the pipeline itself instead of handing it to the
\* executor: asyncio.create_task(self.pipeline(task_info))
DriverSubmitDirect ==
  /\ dpc = "iter"
  /\ IF build_task_info(di, rss_config) # "ok"
       THEN /\ dpc' = "crashed"
            /\ di' = 1
            /\ UNCHANGED <<running, execs>>
       ELSE /\ running' = running \cup {di}
            /\ execs' = execs \cup {NewExec(di)}
            /\ IF di < NumHashes
                 THEN /\ di' = di + 1
                      /\ dpc' = "iter"
                 ELSE /\ di' = 1
                      /\ dpc' = "sleep"
  /\ UNCHANGED <<store, stop_event, rss_config, tg_enable, qb, fr, disk, reply>>

\* DriverSubmit running the pipeline in the loop itself,
\* "await self.pipeline(task_info)": the driver goes on only when no
\* execution is under way
DriverSubmitAwaits ==
  /\ dpc = "iter"
  /\ execs = {}
  /\ IF build_task_info(di, rss_config) # "ok"
       THEN /\ dpc' = "crashed"
            /\ di' = 1
            /\ UNCHANGED <<running, execs>>
       ELSE /\ submit_task(di)
            /\ IF di < NumHashes
                 THEN /\ di' = di + 1
                      /\ dpc' = "iter"
                 ELSE /\ di' = 1
                      /\ dpc' = "sleep"
  /\ UNCHANGED <<store, stop_event, rss_config, tg_enable, qb, fr, disk, reply>>

\* Loop.start: one round of the for loops: build_task_info, then submit_task
DriverSubmit ==
  /\ dpc = "iter"
  /\ IF build_task_info(di, rss_config) # "ok"
       THEN /\ dpc' = "crashed"
            /\ di' = 1
            /\ UNCHANGED <<running, execs>>
       ELSE /\ submit_task(di)
            /\ IF di < NumHashes
                 THEN /\ di' = di + 1
                      /\ dpc' = "iter"
                 ELSE /\ di' = 1
                      /\ dpc' = "sleep"
  /\ UNCHANGED <<store, stop_event, rss_config, tg_enable, qb, fr, disk, reply>>

\* Loop.start: asyncio.sleep(interval) is over
DriverWake ==
  /\ dpc = "sleep"
  /\ dpc' = "while"
  /\ UNCHANGED <<store, running, execs, di, stop_event, rss_config, tg_enable, qb, fr, disk, reply>>

(* ------------------------------------------------------------- pipeline *)

\* Advance without the "if task_status.bt_downloaded_path is None" test: an
\* execution always starts with the acquisition stage
AdvanceAlwaysAcquires(e) ==
  IF e.pc = "get" \/ e.ts.bt_downloaded_path = None
    THEN [e EXCEPT !.pc = "bt_exist"]
  ELSE IF e.ts.finalrip_downloaded_path = None
    THEN [e EXCEPT !.pc = "fr_exist"]
  ELSE IF ~e.ts.tg_uploaded
    THEN IF tg_enable
           THEN [e EXCEPT !.pc = "send", !.called = Touch(e.called, "tg")]
           ELSE Raise(e, "AssertionError")
  ELSE [e EXCEPT !.pc = "done_update", !.ts.done = TRUE]

\* the synchronous code of Loop.pipeline from the "check bt" test down to
\* the next client call or store write: the stage tests and the asserts
Advance(e) ==
  IF e.ts.bt_downloaded_path = None
    THEN [e EXCEPT !.pc = "bt_exist"]
  ELSE IF e.ts.finalrip_downloaded_path = None
    THEN [e EXCEPT !.pc = "fr_exist"]
  ELSE IF ~e.ts.tg_uploaded
    THEN IF tg_enable
           THEN [e EXCEPT !.pc = "send", !.called = Touch(e.called, "tg")]
           ELSE Raise(e, "AssertionError")
  ELSE [e EXCEPT !.pc = "done_update", !.ts.done = TRUE]

\* json_store.check_task_exist(task_info.hash)
PCheck(e) ==
  /\ e.pc = "check"
  /\ execs' = Replace(e, [e EXCEPT !.pc = IF check_task_exist(e.id) THEN "get" ELSE "add"])
  /\ UNCHANGED <<store, running, dpc, di, stop_event, rss_config, tg_enable, qb, fr, disk, reply>>

\* json_store.add_task(task_id, TaskStatus())
PAdd(e) ==
  /\ e.pc = "add"
  /\ LET r == add_task(store, e.id, TaskStatus)
     IN /\ store' = r.store
        /\ execs' = Replace(e, IF r.err # "" THEN Raise(e, r.err)
                               ELSE [e EXCEPT !.pc = "get",
                                              !.writes = Append(e.writes, "create")])
  /\ UNCHANGED <<running, dpc, di, stop_event, rss_config, tg_enable, qb, fr, disk, reply>>

\* AfterGet without the "if task_status.done: return" test
AfterGetNoReturn(e, ts) == Advance([e EXCEPT !.ts = ts, !.entry = ts])

\* AfterGet going on with a fresh TaskStatus() instead of the record loaded
AfterGetFresh(e, ts) ==
  IF ts.done
    THEN [e EXCEPT !.pc = "returned", !.ts = ts, !.entry = ts]
    ELSE Advance([e EXCEPT !.ts = TaskStatus, !.entry = ts])

\* the position after get_task returned status ts: return when done
AfterGet(e, ts) ==
  IF ts.done
    THEN [e EXCEPT !.pc = "returned", !.ts = ts, !.entry = ts]
    ELSE Advance([e EXCEPT !.ts = ts, !.entry = ts])

\* task_status = json_store.get_task(task_info.hash)
PGet(e) ==
  /\ e.pc = "get"
  /\ LET r == get_task(store, e.id)
     IN execs' = Replace(e, IF r.err # "" THEN Raise(e, r.err)
                            ELSE AfterGet(e, r.value))
  /\ UNCHANGED <<store, running, dpc, di, stop_event, rss_config, tg_enable, qb, fr, disk, reply>>

\* json_store.update_task(task_info.hash, task_status), after which the
\* pipeline runs on to its next call, or returns after the last write
PUpdate(e, field) ==
  /\ LET r == update_task(store, e.id, e.ts)
         w == [e EXCEPT !.writes = Append(e.writes, field)]
     IN /\ store' = r.store
        /\ execs' = Replace(e, IF r.err # "" THEN Raise(e, r.err)
                               ELSE IF field = "done"
                                 THEN [w EXCEPT !.pc = "returned"]
                                 ELSE Advance(w))
  /\ UNCHANGED <<running, dpc, di, stop_event, rss_config, tg_enable, qb, fr, disk, reply>>

\* PBtExist with "if" in place of "while": after one add_torrent the
\* pipeline goes on to the completion poll without asking again
PBtExistNoWait(e) ==
  /\ e.pc = "bt_exist"
  /\ LET c == [e EXCEPT !.called = Touch(e.called, "bt")]
     IN \/ /\ execs' = Replace(e, Raise(c, "StageClientError"))
           /\ UNCHANGED qb
        \/ /\ qb[e.id] = "absent"
           /\ \E q \in {"absent", "downloading"} : qb' = [qb EXCEPT ![e.id] = q]
           /\ execs' = Replace(e, [c EXCEPT !.pc = "bt_complete"])
        \/ /\ qb[e.id] # "absent"
           /\ execs' = Replace(e, [c EXCEPT !.pc = "bt_complete"])
           /\ UNCHANGED qb
  /\ UNCHANGED <<store, running, dpc, di, stop_event, rss_config, tg_enable, fr, disk, reply>>

\* while not check_torrent_exist(hash): add_torrent(...); sleep(10)
PBtExist(e) ==
  /\ e.pc = "bt_exist"
  /\ LET c == [e EXCEPT !.called = Touch(e.called, "bt")]
     IN \/ /\ execs' = Replace(e, Raise(c, "StageClientError"))
           /\ UNCHANGED qb
        \/ /\ qb[e.id] = "absent"
           /\ \E q \in {"absent", "downloading"} : qb' = [qb EXCEPT ![e.id] = q]
           /\ execs' = Replace(e, c)
        \/ /\ qb[e.id] # "absent"
           /\ execs' = Replace(e, [c EXCEPT !.pc = "bt_complete"])
           /\ UNCHANGED qb
  /\ UNCHANGED <<store, running, dpc, di, stop_event, rss_config, tg_enable, fr, disk, reply>>

\* PBtComplete storing the resolved path in the wrong field of task_status
PBtCompleteWrongField(e) ==
  /\ e.pc = "bt_complete"
  /\ LET c == [e EXCEPT !.called = Touch(e.called, "bt")]
     IN \/ execs' = Replace(e, Raise(c, "StageClientError"))
        \/ /\ qb[e.id] # "complete"
           /\ execs' = Replace(e, c)
        \/ /\ qb[e.id] = "complete"
           /\ execs' = Replace(e, [c EXCEPT !.pc = "bt_update",
                                            !.ts.finalrip_downloaded_path = BtPath(e.id)])
  /\ UNCHANGED <<store, running, dpc, di, stop_event, rss_config, tg_enable, qb, fr, disk, reply>>

\* while not check_download_complete(hash): sleep(10); get_downloaded_path
PBtComplete(e) ==
  /\ e.pc = "bt_complete"
  /\ LET c == [e EXCEPT !.called = Touch(e.called, "bt")]
     IN \/ execs' = Replace(e, Raise(c, "StageClientError"))
        \/ /\ qb[e.id] # "complete"
           /\ execs' = Replace(e, c)
        \/ /\ qb[e.id] = "complete"
           /\ execs' = Replace(e, [c EXCEPT !.pc = "bt_update",
                                            !.ts.bt_downloaded_path = BtPath(e.id)])
  /\ UNCHANGED <<store, running, dpc, di, stop_event, rss_config, tg_enable, qb, fr, disk, reply>>

PBtUpdate(e) ==
  /\ e.pc = "bt_update"
  /\ PUpdate(e, "bt")

(* ------------------------------------------------------ transcode client *)

UploadOutcomes == {"ok", "FileNotFoundError", "ValueError", "IOError"}

\* FinalRipClient.upload_and_new_task: the task is registered only when the
\* file check, the presigned URL, the upload and new_task all succeeded
upload_and_new_task(state, out) == IF out = "ok" THEN "new" ELSE state

DownloadNet == {"ok", "progress_failed", "http_error"}

\* download_completed_task without the test of encode_url: whatever the
\* progress answer names is fetched and saved
download_completed_task_unchecked(state, net) ==
  IF net = "progress_failed" THEN "ValueError"
  ELSE IF net = "http_error" THEN "IOError"
  ELSE "ok"

\* FinalRipClient.download_completed_task: "ok" or the error it raises;
\* encode_url is "" until the job is completed
download_completed_task(state, net) ==
  IF net = "progress_failed" THEN "ValueError"
  ELSE IF state # "completed" THEN "TaskNotCompletedError"
  ELSE IF net = "http_error" THEN "IOError"
  ELSE "ok"

\* while not check_task_exist(key): upload_and_new_task(path); sleep(10)
\* and then start_task(video_key, encode_param, script)
PFrExist(e) ==
  /\ e.pc = "fr_exist"
  /\ LET c == [e EXCEPT !.called = Touch(e.called, "fr")]
     IN IF fr[e.id] = "absent"
          THEN \E out \in UploadOutcomes :
                 /\ fr' = [fr EXCEPT ![e.id] = upload_and_new_task(fr[e.id], out)]
                 /\ execs' = Replace(e, IF out = "ok" THEN c ELSE Raise(c, out))
          ELSE \/ /\ execs' = Replace(e, Raise(c, "StageClientError"))
                  /\ UNCHANGED fr
               \/ /\ fr' = [fr EXCEPT ![e.id] = IF @ = "new" THEN "running" ELSE @]
                  /\ execs' = Replace(e, [c EXCEPT !.pc = "fr_complete"])
  /\ UNCHANGED <<store, running, dpc, di, stop_event, rss_config, tg_enable, qb, disk, reply>>

\* PFrComplete without the polling loop: the download is asked for at once
\* and its TaskNotCompletedError ends the execution
PFrCompleteNoLoop(e) ==
  /\ e.pc = "fr_complete"
  /\ LET c == [e EXCEPT !.called = Touch(e.called, "fr")]
     IN \E net \in DownloadNet :
          LET r == download_completed_task(fr[e.id], net)
          IN IF r = "ok"
               THEN /\ disk' = [disk EXCEPT ![e.id] = "final"]
                    /\ execs' = Replace(e,
                         [c EXCEPT !.pc = "fr_update",
                                   !.ts.finalrip_downloaded_path = FinalPath(e.id)])
               ELSE /\ execs' = Replace(e, Raise(c, r))
                    /\ UNCHANGED disk
  /\ UNCHANGED <<store, running, dpc, di, stop_event, rss_config, tg_enable, qb, fr, reply>>

\* while not check_task_completed(key): sleep(10); then the download to the
\* temporary file and its rename to the canonical name
PFrComplete(e) ==
  /\ e.pc = "fr_complete"
  /\ LET c == [e EXCEPT !.called = Touch(e.called, "fr")]
     IN IF fr[e.id] # "completed"
          THEN /\ execs' = Replace(e, c)
               /\ UNCHANGED disk
          ELSE \E net \in DownloadNet :
                 LET r == download_completed_task(fr[e.id], net)
                 IN IF r = "ok"
                      THEN /\ disk' = [disk EXCEPT ![e.id] = "final"]
                           /\ execs' = Replace(e,
                                [c EXCEPT !.pc = "fr_update",
                                          !.ts.finalrip_downloaded_path = FinalPath(e.id)])
                      ELSE /\ execs' = Replace(e, Raise(c, r))
                           /\ UNCHANGED disk
  /\ UNCHANGED <<store, running, dpc, di, stop_event, rss_config, tg_enable, qb, fr, reply>>

PFrUpdate(e) ==
  /\ e.pc = "fr_update"
  /\ PUpdate(e, "fr")

(* -------------------------------------------------------- publish client *)

SendNet == {"ok", "NetworkError", "TelegramError"}

\* one attempt of TGChannelSender.send_video: "sent" when bot.send_video
\* succeeded, "raise" when the attempt raises (missing file, NetworkError),
\* "swallowed" when the error is printed and the method returns
send_video(exists, net) ==
  IF ~exists THEN "raise"
  ELSE IF net = "ok" THEN "sent"
  ELSE IF net = "NetworkError" THEN "raise"
  ELSE "swallowed"

\* PSend with the flag persisted before the delivery is attempted
PSendMarksFirst(e) ==
  /\ e.pc = "send"
  /\ store' = [store EXCEPT ![e.id].tg_uploaded = TRUE]
  /\ \E net \in {"ok", "NetworkError"} :
       execs' = Replace(e,
            IF net = "NetworkError"
              THEN Raise(e, "RetryError")
              ELSE [e EXCEPT !.pc = "tg_update", !.ts.tg_uploaded = TRUE,
                             !.delivered = TRUE])
  /\ UNCHANGED <<running, dpc, di, stop_event, rss_config, tg_enable, qb, fr, disk, reply>>

\* the network outcomes of the attempts of one send_video call: k attempts
\* that meet a NetworkError, every later one meeting outcome o
NetRuns ==
  {[i \in 1..STOP_AFTER_ATTEMPT |-> IF i <= k THEN "NetworkError" ELSE o] :
     k \in 0..(STOP_AFTER_ATTEMPT - 1), o \in SendNet}

\* @retry(wait=wait_random(3, 5), stop=stop_after_attempt(10)) around
\* send_video: attempt att and the ones after it; the result of the first
\* attempt that returns, or "RetryError" once attempt 10 has raised
RECURSIVE retry_send_video(_, _, _)
retry_send_video(att, exists, nets) ==
  LET r == send_video(exists, nets[att])
  IN IF r # "raise" THEN r
     ELSE IF att >= STOP_AFTER_ATTEMPT THEN "RetryError"
     ELSE retry_send_video(att + 1, exists, nets)

\* PSend setting done together with tg_uploaded, so that one update
\* persists both
PSendSetsDone(e) ==
  /\ e.pc = "send"
  /\ \E nets \in NetRuns, exists \in BOOLEAN :
       LET r == retry_send_video(1, exists /\ disk[e.id] = "final", nets)
       IN execs' = Replace(e,
            IF r = "RetryError"
              THEN Raise(e, "RetryError")
              ELSE [e EXCEPT !.pc = "tg_update", !.ts.tg_uploaded = TRUE,
                             !.ts.done = TRUE,
                             !.delivered = (r = "sent")])
  /\ UNCHANGED <<store, running, dpc, di, stop_event, rss_config, tg_enable, qb, fr, disk, reply>>

\* await tg_channel_sender.send_video(...), then task_status.tg_uploaded = True;
\* the file is there unless something else removed it
PSend(e) ==
  /\ e.pc = "send"
  /\ \E nets \in NetRuns, exists \in BOOLEAN :
       LET r == retry_send_video(1, exists /\ disk[e.id] = "final", nets)
       IN execs' = Replace(e,
            IF r = "RetryError"
              THEN Raise(e, "RetryError")
              ELSE [e EXCEPT !.pc = "tg_update", !.ts.tg_uploaded = TRUE,
                             !.delivered = (r = "sent")])
  /\ UNCHANGED <<store, running, dpc, di, stop_event, rss_config, tg_enable, qb, fr, disk, reply>>

PTgUpdate(e) ==
  /\ e.pc = "tg_update"
  /\ PUpdate(e, "tg")

PDoneUpdate(e) ==
  /\ e.pc = "done_update"
  /\ PUpdate(e, "done")

\* Reap releasing the identity only when the coroutine returned
ReapLeak(e) ==
  /\ e.pc \in {"returned", "raised"}
  /\ execs' = execs \ {e}
  /\ running' = IF e.pc = "returned" THEN running \ {e.id} ELSE running
  /\ UNCHANGED <<store, dpc, di, stop_event, rss_config, tg_enable, qb, fr, disk, reply>>

\* the executor's bookkeeping when a task's coroutine has returned or raised
Reap(e) ==
  /\ e.pc \in {"returned", "raised"}
  /\ execs' = execs \ {e}
  /\ running' = running \ {e.id}
  /\ UNCHANGED <<store, dpc, di, stop_event, rss_config, tg_enable, qb, fr, disk, reply>>

(* ----------------------------------------------------------- environment *)

\* the acquisition service finishes a transfer
QbProgress(h) ==
  /\ qb[h] = "downloading"
  /\ qb' = [qb EXCEPT ![h] = "complete"]
  /\ UNCHANGED <<store, running, execs, dpc, di, stop_event, rss_config, tg_enable, fr, disk, reply>>

\* the transcode service finishes a job
FrProgress(h) ==
  /\ fr[h] = "running"
  /\ fr' = [fr EXCEPT ![h] = "completed"]
  /\ UNCHANGED <<store, running, execs, dpc, di, stop_event, rss_config, tg_enable, qb, disk, reply>>

\* the process is restarted: every coroutine is gone, the store, the
\* services and the disk are as they were, the configuration is reloaded
RestartProcess ==
  /\ execs' = {}
  /\ running' = {}
  /\ dpc' = "while"
  /\ di' = 1
  /\ stop_event' = FALSE
  /\ rss_config' = FullConfig
  /\ tg_enable' \in BOOLEAN
  /\ UNCHANGED <<store, qb, fr, disk>>

Restart ==
  /\ RestartProcess
  /\ UNCHANGED reply

\* every step but the driver's while test
Step ==
  \/ Stop
  \/ DriverSubmit
  \/ DriverWake
  \/ \E e \in execs : PCheck(e)
  \/ \E e \in execs : PAdd(e)
  \/ \E e \in execs : PGet(e)
  \/ \E e \in execs : PBtExist(e)
  \/ \E e \in execs : PBtComplete(e)
  \/ \E e \in execs : PBtUpdate(e)
  \/ \E e \in execs : PFrExist(e)
  \/ \E e \in execs : PFrComplete(e)
  \/ \E e \in execs : PFrUpdate(e)
  \/ \E e \in execs : PSend(e)
  \/ \E e \in execs : PTgUpdate(e)
  \/ \E e \in execs : PDoneUpdate(e)
  \/ \E e \in execs : Reap(e)
  \/ \E h \in Hashes : QbProgress(h)
  \/ \E h \in Hashes : FrProgress(h)
  \/ Restart

\* the configuration file always names every script and parameter set in use
Next ==
  \/ DriverLoop({FullConfig})
  \/ Step

Spec == Init /\ [][Next]_vars

\* the configuration file is edited between ticks and may miss names
NextCfg ==
  \/ DriverLoop(ConfigChoices)
  \/ Step

SpecCfg == Init /\ [][NextCfg]_vars

(* ------------------------------------------------- the store called directly *)

\* every status record an identity can be given
StatusSet(h) ==
  [bt_downloaded_path : {None, BtPath(h)},
   finalrip_downloaded_path : {None, FinalPath(h)},
   tg_uploaded : BOOLEAN,
   done : BOOLEAN]

StoreCreate(h, status) ==
  /\ LET r == add_task(store, h, status)
     IN /\ store' = r.store
        /\ reply' = [op |-> "create", id |-> h, arg |-> status, err |-> r.err,
                     value |-> None, restarted |-> FALSE]
  /\ UNCHANGED <<running, execs, dpc, di, stop_event, rss_config, tg_enable,
                 qb, fr, disk>>

StoreGet(h) ==
  /\ LET r == get_task(store, h)
     IN reply' = [op |-> "get", id |-> h, arg |-> None, err |-> r.err,
                  value |-> r.value, restarted |-> FALSE]
  /\ UNCHANGED <<store, running, execs, dpc, di, stop_event, rss_config,
                 tg_enable, qb, fr, disk>>

StoreUpdate(h, status) ==
  /\ LET r == update_task(store, h, status)
     IN /\ store' = r.store
        /\ reply' = [op |-> "update", id |-> h, arg |-> status, err |-> r.err,
                     value |-> None, restarted |-> FALSE]
  /\ UNCHANGED <<running, execs, dpc, di, stop_event, rss_config, tg_enable,
                 qb, fr, disk>>

\* the process is restarted between two calls; the caller remembers what it
\* wrote last
StoreRestart ==
  /\ RestartProcess
  /\ reply' = [reply EXCEPT !.restarted = TRUE]

NextStore ==
  \/ \E h \in Hashes : \E status \in StatusSet(h) : StoreCreate(h, status)
  \/ \E h \in Hashes : StoreGet(h)
  \/ \E h \in Hashes : \E status \in StatusSet(h) : StoreUpdate(h, status)
  \/ StoreRestart

SpecStore == Init /\ [][NextStore]_vars

(* ------------------------------------- the transcode client called directly *)

\* the one job the tests work on
video_key == 1

\* test_download_completed_task: one round of its loop, a call of
\* download_completed_task for the registered job with a save path of its own
TestDownload ==
  /\ fr[video_key] # "absent"
  /\ \E net \in DownloadNet :
       LET r == download_completed_task(fr[video_key], net)
       IN reply' = [op |-> "download", id |-> video_key, arg |-> net,
                    err |-> IF r = "ok" THEN "" ELSE r,
                    value |-> IF r = "ok" THEN <<"saved", video_key>> ELSE None,
                    restarted |-> FALSE]
  /\ UNCHANGED <<store, running, execs, dpc, di, stop_event, rss_config,
                 tg_enable, qb, fr, disk>>

\* the pipeline, and the client called beside it
NextEncode ==
  \/ Next
  \/ TestDownload

SpecEncode == Init /\ [][NextEncode]_vars

(* ------------------------------------------------ runs in which nothing fails *)

\* one step of the execution e of Loop.pipeline
Pipeline(e) ==
  \/ PCheck(e)
  \/ PAdd(e)
  \/ PGet(e)
  \/ PBtExist(e)
  \/ PBtComplete(e)
  \/ PBtUpdate(e)
  \/ PFrExist(e)
  \/ PFrComplete(e)
  \/ PFrUpdate(e)
  \/ PSend(e)
  \/ PTgUpdate(e)
  \/ PDoneUpdate(e)

\* no client call and no store call of this step failed: nothing was raised
\* but by the pipeline's own asserts, and a send delivered the video
NoFailure ==
  \A f \in execs' \ execs :
    /\ f.pc = "raised" => f.err = "AssertionError"
    /\ f.pc = "tg_update" => f.delivered

\* one step of Loop.start
Driver ==
  \/ DriverLoop({FullConfig})
  \/ DriverSubmit
  \/ DriverWake

\* the event loop runs the coroutine of identity h, or the executor releases
\* it; an acquisition-start makes the torrent known to the client
FairStep(h) ==
  \E e \in Live(h) :
    /\ Pipeline(e) \/ Reap(e)
    /\ NoFailure
    /\ e.pc = "bt_exist" => qb'[h] # "absent"

\* no stage action fails, the process is neither stopped nor restarted
NextFair ==
  \/ Driver
  \/ \E e \in execs : Pipeline(e) /\ NoFailure
  \/ \E e \in execs : Reap(e)
  \/ \E h \in Hashes : QbProgress(h)
  \/ \E h \in Hashes : FrProgress(h)

\* the event loop runs every ready coroutine, and every service finishes
\* what it was given
SpecFair ==
  /\ Init
  /\ [][NextFair]_vars
  /\ WF_vars(Driver)
  /\ \A h \in Hashes : /\ WF_vars(FairStep(h))
                        /\ WF_vars(QbProgress(h))
                        /\ WF_vars(FrProgress(h))

(* ---------------------------------------------------------------- claims *)


\* C1: the persisted status of every identity keeps the checkpoint order:
\* done implies published (or publishing disabled), published implies
\* transcoded_path set, transcoded_path set implies acquired_path set
C1_CheckpointOrder ==
  \A h \in Hashes :
    store[h] # None =>
      /\ store[h].done => (store[h].tg_uploaded \/ ~tg_enable)
      /\ store[h].tg_uploaded => store[h].finalrip_downloaded_path # None
      /\ store[h].finalrip_downloaded_path # None => store[h].bt_downloaded_path # None

\* C1 witness: one identity is done and published while another is restarted
\* into from its acquired checkpoint
C1_Witness ==
  \E h, k \in Hashes :
    /\ store[h] # None /\ store[h].done /\ store[h].tg_uploaded
    /\ store[k] # None /\ store[k].bt_downloaded_path # None
    /\ store[k].finalrip_downloaded_path = None
    /\ \E e \in Live(k) : e.pc = "fr_exist" /\ e.writes = <<>>

\* C2: an execution that runs on a record that was done before it started
\* (it has not written done itself) makes no stage-client call and no store
\* write, and only reads: it is at the existence check, at the get, or has
\* returned with the record as it found it
C2_DoneIsNoOp ==
  \A e \in execs :
    (store[e.id] # None /\ store[e.id].done /\ "done" \notin Range(e.writes)) =>
      /\ e.called = <<>>
      /\ e.writes = <<>>
      /\ e.pc \in {"check", "get", "returned"}
      /\ e.entry # None => e.entry = store[e.id]

\* C2 witness: an execution has returned from a record it found done
C2_Witness ==
  \E e \in execs :
    /\ e.pc = "returned" /\ e.entry # None /\ e.entry.done
    /\ e.called = <<>> /\ e.writes = <<>> /\ store[e.id] = e.entry

\* C5: an execution makes no client call of a stage whose output field was
\* set in the status it loaded; loaded with acquired_path set and
\* transcoded_path absent, its first call is to the transcode client; loaded
\* with both paths set, published false and publishing enabled, it calls only
\* the publish client, and when it has returned the persisted status is the
\* loaded one with published and done true
C5_ResumeSkipsStages ==
  \A e \in execs :
    IF e.entry = None THEN e.called = <<>>
    ELSE
      /\ e.entry.bt_downloaded_path # None => "bt" \notin Range(e.called)
      /\ e.entry.finalrip_downloaded_path # None => "fr" \notin Range(e.called)
      /\ e.entry.tg_uploaded => "tg" \notin Range(e.called)
      /\ ( /\ e.entry.bt_downloaded_path # None
           /\ e.entry.finalrip_downloaded_path = None
           /\ e.called # <<>> ) => e.called[1] = "fr"
      /\ ( /\ e.entry.bt_downloaded_path # None
           /\ e.entry.finalrip_downloaded_path # None
           /\ ~e.entry.tg_uploaded
           /\ tg_enable ) =>
             /\ Range(e.called) \subseteq {"tg"}
             /\ e.pc = "returned" =>
                  /\ e.called = <<"tg">>
                  /\ store[e.id] = [e.entry EXCEPT !.tg_uploaded = TRUE, !.done = TRUE]

\* C5 witness: one execution resumed from the acquired checkpoint has called
\* the transcode client first, another resumed from the transcoded
\* checkpoint has returned after the publish send alone
C5_Witness ==
  /\ \E e \in execs :
       /\ e.entry # None /\ e.entry.bt_downloaded_path # None
       /\ e.entry.finalrip_downloaded_path = None
       /\ e.called # <<>> /\ e.called[1] = "fr"
  /\ \E e \in execs :
       /\ e.entry # None /\ e.entry.finalrip_downloaded_path # None
       /\ ~e.entry.tg_uploaded /\ e.pc = "returned"
       /\ e.called = <<"tg">> /\ store[e.id].done /\ store[e.id].tg_uploaded

\* the driver's step for item h of the current tick: build_task_info and
\* submit_task
IsSubmit(h) ==
  /\ dpc = "iter" /\ di = h
  /\ dpc' \in {"iter", "sleep"}
  /\ <<dpc', di'>> # <<dpc, di>>

\* a restart of the process: no coroutine survives it
IsRestart ==
  /\ execs' = {} /\ running' = {}
  /\ dpc' = "while" /\ di' = 1 /\ ~stop_event'

\* C3: there is at most one execution per identity, the executor holds
\* exactly the identities that have one; a submit for an identity that has an
\* execution changes neither the executions nor the executor (it is
\* dropped), and an execution starts only in a submit step of the driver for
\* an identity that has none (nothing is queued to start later)
C3_AtMostOneExecution ==
  /\ [](\A h \in Hashes : /\ Cardinality(Live(h)) <= 1
                          /\ h \in running <=> Live(h) # {})
  /\ [][\A h \in Hashes :
          /\ (IsSubmit(h) /\ Live(h) # {}) =>
               (execs' = execs /\ running' = running)
          /\ (NewExec(h) \in execs' /\ NewExec(h) \notin execs) =>
               (IsSubmit(h) /\ Live(h) = {})]_vars

\* C3 witness: the driver is about to submit an identity whose execution,
\* started in an earlier tick, is still waiting for its transcode job
C3_Witness ==
  /\ dpc = "iter" /\ di \in running
  /\ \E e \in Live(di) : e.pc = "fr_complete"

\* C4: when an execution ends, returned or raised, the step removes that
\* execution alone and releases its identity, every other execution being
\* left as it is; no step changes two executions unless the process
\* restarts; and a submit for an identity without execution starts one
C4_EndIsolated ==
  [][/\ \A e \in execs :
          (e.pc \in {"returned", "raised"} /\ e \notin execs' /\ ~IsRestart) =>
             /\ execs' = execs \ {e}
             /\ running' = running \ {e.id}
     /\ IsRestart \/ Cardinality(execs \ execs') <= 1
     /\ \A e \in execs, f \in execs' :
          (f.id = e.id /\ f # e /\ f.pc = "raised") =>
             /\ execs' = (execs \ {e}) \cup {f}
             /\ running' = running
     /\ \A h \in Hashes :
          (IsSubmit(h) /\ Live(h) = {}) => NewExec(h) \in execs']_vars

\* C4 witness: one execution has raised in its transcode stage while another
\* identity's execution is in the middle of its own, the driver being in a
\* tick
C4_Witness ==
  /\ \E e, f \in execs :
       /\ e.pc = "raised" /\ e.err = "IOError"
       /\ f.id # e.id /\ f.pc = "fr_complete"
  /\ dpc = "iter"

\* C6: with publishing disabled, an execution whose transcoded path is
\* persisted makes no publish-client call and is at the write of done or has
\* returned, and when it has returned done is persisted with published as
\* it was loaded
C6_DisabledReachesDone ==
  \A e \in execs :
    ( /\ ~tg_enable
      /\ e.entry # None
      /\ store[e.id].finalrip_downloaded_path # None ) =>
        /\ "tg" \notin Range(e.called)
        /\ e.pc \in {"done_update", "returned"}
        /\ e.pc = "returned" =>
             /\ store[e.id].done
             /\ store[e.id].tg_uploaded = e.entry.tg_uploaded

\* the record an execution has persisted so far: the status it loaded with
\* the fields it has written since
Persisted(e) ==
  [bt_downloaded_path |->
     IF "bt" \in Range(e.writes) THEN e.ts.bt_downloaded_path
     ELSE e.entry.bt_downloaded_path,
   finalrip_downloaded_path |->
     IF "fr" \in Range(e.writes) THEN e.ts.finalrip_downloaded_path
     ELSE e.entry.finalrip_downloaded_path,
   tg_uploaded |-> IF "tg" \in Range(e.writes) THEN TRUE ELSE e.entry.tg_uploaded,
   done |-> IF "done" \in Range(e.writes) THEN TRUE ELSE e.entry.done]

\* C7: an execution that has raised has not written done, and the persisted
\* record is the status it loaded with the fields it wrote before the
\* failure; the step in which a client call or a store call fails writes
\* nothing; the record of an identity
\* without execution does not change; a driver submit for such an identity
\* starts an execution, and what that execution loads is the persisted record
C7_FailureKeepsCheckpoint ==
  /\ [](\A e \in execs :
          (e.pc = "raised" /\ e.entry # None) =>
             /\ "done" \notin Range(e.writes)
             /\ ~store[e.id].done
             /\ store[e.id] = Persisted(e))
  /\ [][/\ \A e \in execs, f \in execs' :
             ( /\ f.id = e.id /\ e.pc # "raised" /\ f.pc = "raised"
               /\ f.err # "AssertionError" ) => store' = store
        /\ \A h \in Hashes :
             /\ Live(h) = {} => store'[h] = store[h]
             /\ (IsSubmit(h) /\ Live(h) = {}) => NewExec(h) \in execs'
        /\ \A e \in execs, f \in execs' :
             (f.id = e.id /\ e.pc = "get" /\ f.pc \notin {"get", "raised"}) =>
                (f.entry = store[e.id] /\ store' = store)]_vars

\* C7 witness: an execution has raised in its transcode stage after it
\* persisted the acquired path, which is all the record holds
C7_Witness ==
  \E e \in execs :
    /\ e.pc = "raised" /\ e.err \in {"ValueError", "IOError", "StageClientError"}
    /\ e.writes = <<"create", "bt">>
    /\ e.called = <<"bt", "fr">>
    /\ store[e.id] = [TaskStatus EXCEPT !.bt_downloaded_path = BtPath(e.id)]

\* C8: the driver's step at an item whose script or parameter name is not in
\* the profile table submits nothing for it and moves on to the next item of
\* the tick, or to the interval wait: the loop does not end
C8_BadItemOnlyDropped ==
  [][( /\ dpc = "iter"
       /\ build_task_info(di, rss_config) # "ok"
       /\ ~IsRestart ) =>
         /\ dpc' # "crashed"
         /\ <<dpc', di'>> # <<dpc, di>> => (IsSubmit(di) /\ execs' = execs)]_vars

\* C9: the step that persists published = true is a step of an execution
\* whose delivery succeeded, and an execution that called the publish client
\* writes done only if its delivery succeeded
C9_PublishedOnlyIfDelivered ==
  [][\A e \in execs :
       /\ ( /\ store[e.id] # None /\ ~store[e.id].tg_uploaded
            /\ store'[e.id].tg_uploaded ) => e.delivered
       /\ ( /\ store[e.id] # None /\ ~store[e.id].done
            /\ store'[e.id].done /\ "tg" \in Range(e.called) ) => e.delivered]_vars

\* C10: with the stop signal set the while test ends the loop, and a loop
\* that has ended stays ended and starts no execution; the signal does not
\* cut the current tick or the interval wait short (the loop ends at the
\* while test only); setting the signal changes no execution, no executor
\* entry and no record
C10_StopEndsLoop ==
  [][IsRestart \/
      ( /\ (stop_event /\ dpc = "while") => dpc' \in {"while", "exit"}
        /\ dpc = "exit" =>
             /\ dpc' = "exit"
             /\ \A h \in Hashes : NewExec(h) \in execs' => NewExec(h) \in execs
        /\ (dpc' = "exit" /\ dpc # "exit") => (dpc = "while" /\ stop_event)
        /\ (stop_event /\ dpc = "iter" /\ <<dpc', di'>> # <<dpc, di>>) => IsSubmit(di)
        /\ (stop_event /\ dpc = "sleep") => dpc' \in {"sleep", "while"}
        /\ (stop_event' /\ ~stop_event) =>
             (execs' = execs /\ running' = running /\ store' = store) )]_vars

\* C10 witness: the loop has ended on the stop signal while an execution is
\* in flight with a checkpoint write pending
C10_Witness ==
  /\ stop_event /\ dpc = "exit"
  /\ \E e \in execs : e.pc = "fr_update" /\ e.id \in running

\* a step of NextStore that is a call of the store, not a restart
IsStoreCall == /\ ~reply'.restarted
               /\ (reply' # reply \/ store' # store)

\* C12: what create(id, S) or update(id, S2) wrote is what the next get(id)
\* returns, the whole record, also when the process was restarted between
\* the write and the get
C12_RoundTrip ==
  [][(/\ IsStoreCall
      /\ reply'.op = "get"
      /\ reply.op \in {"create", "update"}
      /\ reply.err = ""
      /\ reply'.id = reply.id)
     => (reply'.err = "" /\ reply'.value = reply.arg)]_vars

\* an update that set every field was followed by a restart, the get is next
C12_Witness ==
  /\ reply.op = "update"
  /\ reply.err = ""
  /\ reply.restarted
  /\ reply.arg.done
  /\ reply.arg.bt_downloaded_path # None
  /\ store[reply.id] = reply.arg

\* C13: a store call that fails changes nothing: create on a present key
\* fails with AlreadyExists and leaves the record, get and update on an
\* absent key fail with NotFound and do not create the key
C13_FailureLeavesStore ==
  [][IsStoreCall =>
       /\ (reply'.op = "create" /\ store[reply'.id] # None)
            => (reply'.err = "AlreadyExists" /\ store' = store)
       /\ (reply'.op \in {"get", "update"} /\ store[reply'.id] = None)
            => (reply'.err = "NotFound" /\ store' = store)
       /\ reply'.err # "" => store' = store]_vars

\* a create was refused on a key that holds a finished record
C13_Witness ==
  /\ reply.op = "create"
  /\ reply.err = "AlreadyExists"
  /\ store[reply.id] # None
  /\ store[reply.id].done
  /\ reply.arg # store[reply.id]
  /\ \E h \in Hashes : store[h] = None

\* C11: the driver never waits for an execution: whatever the executions
\* are doing, in the middle of a tick its next step submits the item at
\* hand (starting its execution unless one is running) and moves on, after
\* the last item it goes to sleep, and after the sleep the next tick begins
C11_DriverNeverWaits ==
  /\ dpc = "iter" =>
       ENABLED (/\ DriverSubmit
                /\ di \notin running => NewExec(di) \in execs'
                /\ execs \subseteq execs'
                /\ dpc' = IF di < NumHashes THEN "iter" ELSE "sleep")
  /\ dpc = "sleep" => ENABLED (DriverWake /\ execs' = execs)
  /\ dpc = "while" =>
       ENABLED (DriverLoop({FullConfig}) /\ execs' = execs
                /\ dpc' = IF stop_event THEN "exit" ELSE "iter")

\* a later tick is about to resubmit identity 2, which failed before, while
\* the first execution of identity 1 still polls an unfinished download
C11_Witness ==
  /\ dpc = "iter"
  /\ di = 2
  /\ 2 \notin running
  /\ store[2] # None
  /\ ~store[2].done
  /\ qb[1] = "downloading"
  /\ \E e \in Live(1) : e.pc = "bt_complete" /\ e.writes = <<"create">>

\* the executions of identity h that are at one of the positions pcs
At(h, pcs) == {e \in Live(h) : e.pc \in pcs}

\* C14: the acquisition stage of a new task: the status is created first,
\* with both paths absent and both flags false; acquisition-start is
\* requested only while the client reports the identity unknown; completion
\* is polled only after the client reported it known; acquired_path is
\* persisted only after a completion poll returned true, and is the path the
\* client resolved
C14_AcquisitionOrder ==
  [][\A h \in Hashes :
       \* created first, as the empty record
       /\ (store[h] = None /\ store'[h] # None) =>
            (store'[h] = TaskStatus /\ At(h, {"add"}) # {})
       /\ At(h, {"bt_exist", "bt_complete", "bt_update"}) # {} => store[h] # None
       \* acquisition-start only while unknown
       /\ (qb[h] = "absent" /\ qb'[h] # "absent") => At(h, {"bt_exist"}) # {}
       /\ \A e \in At(h, {"bt_exist"}) : \A f \in At(h, {"bt_exist"})' :
            f # e => qb[h] = "absent"
       \* the completion poll only after the identity is known
       /\ \A f \in At(h, {"bt_complete"})' :
            \/ f \in execs
            \/ At(h, {"bt_complete"}) # {}
            \/ (At(h, {"bt_exist"}) # {} /\ qb[h] # "absent" /\ qb'[h] # "absent")
       \* the path only after a completion poll answered true
       /\ \A f \in At(h, {"bt_update"})' :
            \/ f \in execs
            \/ /\ At(h, {"bt_complete"}) # {}
               /\ qb[h] = "complete"
               /\ f.ts.bt_downloaded_path = BtPath(h)
       /\ (store[h] # None /\ store[h].bt_downloaded_path = None
             /\ store'[h].bt_downloaded_path # None) =>
            /\ At(h, {"bt_update"}) # {}
            /\ qb[h] = "complete"
            /\ store'[h].bt_downloaded_path = BtPath(h)]_vars

\* a new identity went through create and the acquisition stage in one
\* execution and its path is persisted
C14_Witness ==
  \E e \in execs :
    /\ e.entry = TaskStatus
    /\ e.writes = <<"create", "bt">>
    /\ store[e.id].bt_downloaded_path = BtPath(e.id)
    /\ store[e.id].finalrip_downloaded_path = None
    /\ qb[e.id] = "complete"

C16_EventuallyDone ==
  \A h \in Hashes : (h \in running) ~> (store[h] # None /\ store[h].done)

\* the execution e is at a poll that answers "not known" or "not complete"
PollsNotReady(e) ==
  \/ e.pc = "bt_exist" /\ qb[e.id] = "absent"
  \/ e.pc = "bt_complete" /\ qb[e.id] # "complete"
  \/ e.pc = "fr_exist" /\ fr[e.id] = "absent"
  \/ e.pc = "fr_complete" /\ fr[e.id] # "completed"

\* what a call of a stage client raises when the call itself fails
ClientErrors == {"StageClientError", "FileNotFoundError", "ValueError", "IOError"}

\* C17: a poll that answers "not known" or "not complete" does not end the
\* execution and does not change the persisted status: after the step the
\* execution is at the same poll, unless the client call itself (the poll,
\* or the start request made between two polls) raised; nothing bounds the
\* number of such steps
C17_NotReadyKeepsPolling ==
  [][\A e \in execs :
       (PollsNotReady(e) /\ e \notin execs' /\ ~IsRestart) =>
         /\ store' = store
         /\ \E f \in Live(e.id)' :
              \/ f.pc = e.pc /\ f.ts = e.ts /\ f.writes = e.writes
              \/ f.pc = "raised" /\ f.err \in ClientErrors]_vars

\* an execution polls a transcode job that is not complete, with the
\* acquisition checkpoint persisted
C17_Witness ==
  \E e \in execs :
    /\ e.pc = "fr_complete"
    /\ fr[e.id] = "running"
    /\ "fr" \in Range(e.called)
    /\ store[e.id] = e.ts
    /\ e.ts.bt_downloaded_path # None

\* the field of the status record each write of the pipeline is for
FieldOf ==
  [bt |-> "bt_downloaded_path", fr |-> "finalrip_downloaded_path",
   tg |-> "tg_uploaded", done |-> "done"]

\* the writes of a complete run, in order
AllWrites == <<"create", "bt", "fr", "tg", "done">>

\* the fields in which two status records differ
Differ(a, b) == {k \in DOMAIN a : a[k] # b[k]}

\* C18: one write per stage transition: an execution that created the record
\* and returned wrote create, acquired_path, transcoded_path, published and
\* done, once each and in this order; the writes of any execution are in
\* this order without repetition; every update changes the persisted record
\* in exactly one field, the one the write is for
C18_OneWritePerStage ==
  [][\A h \in Hashes :
       /\ \A f \in Live(h)' :
            /\ (f.pc = "returned" /\ f.writes # <<>> /\ f.writes[1] = "create")
                 => f.writes = AllWrites
            /\ \A i, j \in 1..Len(f.writes) :
                 i < j => \E m, n \in 1..Len(AllWrites) :
                            /\ m < n
                            /\ AllWrites[m] = f.writes[i]
                            /\ AllWrites[n] = f.writes[j]
       /\ \A e \in Live(h) : \A f \in Live(h)' :
            (Len(f.writes) = Len(e.writes) + 1 /\ Len(e.writes) > 0) =>
              /\ store[h] # None
              /\ Differ(store[h], store'[h]) = {FieldOf[f.writes[Len(f.writes)]]}
       /\ (store[h] # None /\ store'[h] # store[h]) =>
            \E e \in Live(h) : \E f \in Live(h)' :
              Len(f.writes) = Len(e.writes) + 1]_vars

\* with publishing enabled an execution that started from a new identity
\* has returned after its five writes
C18_Witness ==
  /\ tg_enable
  /\ \E e \in execs :
       /\ e.pc = "returned"
       /\ e.entry = TaskStatus
       /\ e.writes = AllWrites
       /\ store[e.id].done

\* C19: persisted checkpoints are monotone: no record is deleted, a path
\* that is set keeps its value, a flag that is true stays true, whatever
\* executions, failures, restarts and resubmissions happen
C19_CheckpointsMonotone ==
  [][\A h \in Hashes :
       store[h] # None =>
         /\ store'[h] # None
         /\ store[h].bt_downloaded_path # None =>
              store'[h].bt_downloaded_path = store[h].bt_downloaded_path
         /\ store[h].finalrip_downloaded_path # None =>
              store'[h].finalrip_downloaded_path = store[h].finalrip_downloaded_path
         /\ store[h].tg_uploaded => store'[h].tg_uploaded
         /\ store[h].done => store'[h].done]_vars

\* an execution that resumed from a persisted transcode checkpoint has
\* written the record again, and both paths are as they were
C19_Witness ==
  \E e \in execs :
    /\ e.entry # None
    /\ e.entry.finalrip_downloaded_path # None
    /\ "tg" \in Range(e.writes)
    /\ store[e.id].bt_downloaded_path = e.entry.bt_downloaded_path
    /\ store[e.id].finalrip_downloaded_path = e.entry.finalrip_downloaded_path
    /\ store[e.id].tg_uploaded

\* C20: check-then-create does not race: an execution that is about to call
\* create finds the key absent, no execution ever ends in AlreadyExists, and
\* a key that is present is never created again, so that over the whole
\* history, restarts included, each identity is created at most once
C20_CreateNeverRaces ==
  [][\A h \in Hashes :
       /\ \A f \in Live(h)' :
            /\ f.err # "AlreadyExists"
            /\ f.pc = "add" => store'[h] = None
       /\ \A e \in Live(h) : \A f \in Live(h)' :
            f.writes = Append(e.writes, "create") =>
              (e.pc = "add" /\ store[h] = None /\ store'[h] = TaskStatus)
       /\ store[h] # None =>
            /\ store'[h] # None
            /\ \A f \in Live(h)' \ Live(h) :
                 "create" \in Range(f.writes) =>
                   \E e \in Live(h) : "create" \in Range(e.writes)]_vars

\* the executions of both identities are between their check and their
\* create at the same time
C20_Witness ==
  /\ \A h \in Hashes : store[h] = None /\ At(h, {"add"}) # {}
  /\ Cardinality(execs) = NumHashes

====
